---------------------------- MODULE Spec2Model ----------------------------
(***************************************************************************)
(* Model of satcom_link_margin.py: the band classifier, the link-budget    *)
(* engine calculate_link_metrics, the margin tier display and the          *)
(* Streamlit script that reruns them on every widget change.               *)
(*                                                                         *)
(* Numbers.  Python floats are modelled at reduced precision:              *)
(*   - a linear quantity (Hz, km, m, bps, bps/Hz) is a decimal float       *)
(*     [m, e] standing for m * 10^e, with a four-digit mantissa            *)
(*     (1000 <= |m| <= 9999, or m = 0); products and quotients are         *)
(*     rounded half-even to four digits;                                   *)
(*   - a dB quantity is an extended fixed-point value [k, v]: finite       *)
(*     (k = "fin", v in units of 1/Scale dB) or one of the IEEE            *)
(*     specials +inf, -inf, nan that numpy's log10 produces for            *)
(*     0 and for negative arguments; sums of finite values are exact;      *)
(*   - log10 is computed to the fixed-point resolution by the binary       *)
(*     shift-and-square algorithm.                                         *)
(***************************************************************************)
EXTENDS Integers, Sequences, FiniteSets, TLC

(***************************************************************************)
(* Decimal floats (linear quantities)                                      *)
(***************************************************************************)
MantLo == 1000

RECURSIVE Pow10(_)
Pow10(n) == IF n = 0 THEN 1 ELSE 10 * Pow10(n - 1)

RECURSIVE NDigits(_)
NDigits(n) == IF n < 10 THEN 1 ELSE 1 + NDigits(n \div 10)

Abs(n) == IF n < 0 THEN -n ELSE n

Sign(n) == IF n < 0 THEN -1 ELSE IF n = 0 THEN 0 ELSE 1

\* n / d rounded to the nearest integer, ties to even (n >= 0, d > 0)
RoundDiv(n, d) ==
    LET q == n \div d
        r == n % d
    IN  IF 2 * r > d \/ (2 * r = d /\ q % 2 = 1) THEN q + 1 ELSE q

\* the decimal float nearest to m * 10^e
Norm(m, e) ==
    IF m = 0 THEN [m |-> 0, e |-> 0]
    ELSE LET a == Abs(m)
             n == NDigits(a)
         IN  IF n <= 4
             THEN [m |-> Sign(m) * a * Pow10(4 - n), e |-> e - (4 - n)]
             ELSE LET q == RoundDiv(a, Pow10(n - 4))
                  IN  IF q = 10 * MantLo
                      THEN [m |-> Sign(m) * MantLo, e |-> e + (n - 4) + 1]
                      ELSE [m |-> Sign(m) * q, e |-> e + (n - 4)]

\* the float of an integer or of a decimal literal m * 10^e
Flt(m, e) == Norm(m, e)

FMul(x, y) == Norm(x.m * y.m, x.e + y.e)

\* x / y for y # 0: six guard digits and a sticky digit, then rounded
FDiv(x, y) ==
    LET num == Abs(x.m) * 100000
        q   == num \div Abs(y.m)
        r   == num % Abs(y.m)
    IN  Norm(Sign(x.m) * Sign(y.m) * (10 * q + (IF r = 0 THEN 0 ELSE 1)),
             x.e - y.e - 6)

FLt(x, y) ==
    CASE x.m > 0 /\ y.m > 0 -> x.e < y.e \/ (x.e = y.e /\ x.m < y.m)
      [] x.m < 0 /\ y.m < 0 -> x.e > y.e \/ (x.e = y.e /\ x.m < y.m)
      [] OTHER -> x.m < y.m

FLe(x, y) == ~FLt(y, x)

(***************************************************************************)
(* Extended fixed-point values (dB quantities)                             *)
(***************************************************************************)
Scale == 10000

Fin(v) == [k |-> "fin", v |-> v]
PosInf == [k |-> "pinf", v |-> 0]
NegInf == [k |-> "ninf", v |-> 0]
NaN    == [k |-> "nan", v |-> 0]

\* the dB value of an integer, and of a decimal literal n / 100
DbInt(n) == Fin(n * Scale)
DbCenti(n) == Fin(n * (Scale \div 100))

IsFinite(a) == a.k = "fin"

XAdd(a, b) ==
    CASE a.k = "nan" \/ b.k = "nan" -> NaN
      [] a.k = "fin" /\ b.k = "fin" -> Fin(a.v + b.v)
      [] a.k = "fin" -> b
      [] b.k = "fin" -> a
      [] a.k = b.k -> a
      [] OTHER -> NaN

XNeg(a) ==
    CASE a.k = "fin" -> Fin(-a.v)
      [] a.k = "pinf" -> NegInf
      [] a.k = "ninf" -> PosInf
      [] OTHER -> NaN

XSub(a, b) == XAdd(a, XNeg(b))

\* n * a for an integer n > 0
XTimes(n, a) == IF a.k = "fin" THEN Fin(n * a.v) ELSE a

\* a > b as IEEE compares: false as soon as one side is nan
XGt(a, b) ==
    CASE a.k = "nan" \/ b.k = "nan" -> FALSE
      [] a.k = "fin" /\ b.k = "fin" -> a.v > b.v
      [] a.k = "pinf" -> b.k # "pinf"
      [] a.k = "ninf" -> FALSE
      [] OTHER -> b.k = "ninf"

XLt(a, b) == XGt(b, a)

(***************************************************************************)
(* log10                                                                   *)
(***************************************************************************)
FracBits == 14

RECURSIVE Pow2(_)
Pow2(n) == IF n = 0 THEN 1 ELSE 2 * Pow2(n - 1)

\* 1.0 in the fixed point of the logarithm's argument
One == Pow2(FracBits)

\* the fraction bits of log2(y / One), One <= y < 2 * One
RECURSIVE Log2Frac(_, _, _)
Log2Frac(y, i, acc) ==
    IF i = 0 THEN acc
    ELSE LET s == (y * y) \div One
         IN  IF s >= 2 * One
             THEN Log2Frac(s \div 2, i - 1, 2 * acc + 1)
             ELSE Log2Frac(s, i - 1, 2 * acc)

\* floor(log2(m / MantLo)) for MantLo <= m < 10 * MantLo
Log2Int(m) ==
    IF m >= 8 * MantLo THEN 3
    ELSE IF m >= 4 * MantLo THEN 2
    ELSE IF m >= 2 * MantLo THEN 1 ELSE 0

\* log10(m / MantLo) in units of 1/Scale, MantLo <= m < 10 * MantLo;
\* 30103 / 100000 is log10(2)
LogMant(m) ==
    LET k  == Log2Int(m)
        y  == (m * One) \div (MantLo * Pow2(k))
        lg == k * One + Log2Frac(y, FracBits, 0)
    IN  RoundDiv(lg * 30103, 10 * One)

\* np.log10: -inf at 0 and nan below 0 (with a RuntimeWarning, no exception)
Log10(x) ==
    IF x.m = 0 THEN NegInf
    ELSE IF x.m < 0 THEN NaN
    ELSE Fin((x.e + 3) * Scale + LogMant(x.m))


(***************************************************************************)
(* The program's constants and pure functions                              *)
(***************************************************************************)
\* np.pi
Pi == Flt(3142, -3)

modcod_table ==
    [n \in {"BPSK 1/2", "QPSK 1/2", "QPSK 3/4", "8PSK 2/3", "16QAM 3/4"} |->
        CASE n = "BPSK 1/2" ->
                [required_ebn0 |-> DbCenti(150), spectral_efficiency |-> Flt(5, -1)]
          [] n = "QPSK 1/2" ->
                [required_ebn0 |-> DbCenti(200), spectral_efficiency |-> Flt(1, 0)]
          [] n = "QPSK 3/4" ->
                [required_ebn0 |-> DbCenti(450), spectral_efficiency |-> Flt(15, -1)]
          [] n = "8PSK 2/3" ->
                [required_ebn0 |-> DbCenti(650), spectral_efficiency |-> Flt(2, 0)]
          [] OTHER ->
                [required_ebn0 |-> DbCenti(900), spectral_efficiency |-> Flt(3, 0)]]

\* classify_band with the 8 GHz test written <= instead of <
classify_band_closed_at_8ghz(freq_hz) ==
    IF FLt(freq_hz, Flt(3, 8)) THEN "HF/VHF"
    ELSE IF FLt(freq_hz, Flt(1, 9)) THEN "UHF"
    ELSE IF FLt(freq_hz, Flt(2, 9)) THEN "L-band"
    ELSE IF FLt(freq_hz, Flt(4, 9)) THEN "S-band"
    ELSE IF FLe(freq_hz, Flt(8, 9)) THEN "C-band"
    ELSE IF FLt(freq_hz, Flt(12, 9)) THEN "X-band"
    ELSE IF FLt(freq_hz, Flt(18, 9)) THEN "Ku-band"
    ELSE IF FLt(freq_hz, Flt(26, 9)) THEN "K-band"
    ELSE "Ka-band"

classify_band(freq_hz) ==
    IF FLt(freq_hz, Flt(3, 8)) THEN "HF/VHF"
    ELSE IF FLt(freq_hz, Flt(1, 9)) THEN "UHF"
    ELSE IF FLt(freq_hz, Flt(2, 9)) THEN "L-band"
    ELSE IF FLt(freq_hz, Flt(4, 9)) THEN "S-band"
    ELSE IF FLt(freq_hz, Flt(8, 9)) THEN "C-band"
    ELSE IF FLt(freq_hz, Flt(12, 9)) THEN "X-band"
    ELSE IF FLt(freq_hz, Flt(18, 9)) THEN "Ku-band"
    ELSE IF FLt(freq_hz, Flt(26, 9)) THEN "K-band"
    ELSE "Ka-band"

valid_bands == {"UHF", "L-band", "S-band", "X-band", "Ku-band", "Ka-band"}

\* c / freq_hz, freq_hz # 0
wavelength_m(freq_hz) == FDiv(Flt(3, 8), freq_hz)

\* the ratio upside down: the path gain 20 log10(wavelength / (4 pi d))
fspl_db_as_gain(distance_km, wavelength) ==
    XNeg(XTimes(20, Log10(FDiv(
        FMul(FMul(FMul(Flt(4, 0), Pi), distance_km), Flt(1000, 0)),
        wavelength))))

fspl_db(distance_km, wavelength) ==
    XTimes(20, Log10(FDiv(
        FMul(FMul(FMul(Flt(4, 0), Pi), distance_km), Flt(1000, 0)),
        wavelength)))

\* total_loss_db with the miscellaneous losses left out
total_loss_db_without_misc(fspl, rain_fade_db, misc_losses_db) ==
    XAdd(fspl, rain_fade_db)

total_loss_db(fspl, rain_fade_db, misc_losses_db) ==
    XAdd(XAdd(fspl, rain_fade_db), misc_losses_db)

eirp_dbw(tx_power_dbw, tx_gain_dbi) == XAdd(tx_power_dbw, tx_gain_dbi)

c_rx_dbw(eirp, rx_gain_dbi, total_loss) ==
    XSub(XAdd(eirp, rx_gain_dbi), total_loss)

noise_floor_dbw(bandwidth_hz, noise_figure_db) ==
    XAdd(XAdd(DbCenti(-22860), XTimes(10, Log10(bandwidth_hz))), noise_figure_db)

\* cn0_dbhz without the bandwidth term: the SNR in the bandwidth
cn0_dbhz_as_snr(c_rx, noise_floor, bandwidth_hz) == XSub(c_rx, noise_floor)

cn0_dbhz(c_rx, noise_floor, bandwidth_hz) ==
    XAdd(XSub(c_rx, noise_floor), XTimes(10, Log10(bandwidth_hz)))

data_rate_bps(bandwidth_hz, spectral_efficiency) ==
    FMul(bandwidth_hz, spectral_efficiency)

ebn0_db(cn0, data_rate) == XSub(cn0, XTimes(10, Log10(data_rate)))

link_margin_db(ebn0, required_ebn0) == XSub(ebn0, required_ebn0)

\* a value that was never assigned
NoDb == [k |-> "none", v |-> 0]
NoFlt == [m |-> 0, e |-> 0]

\* the outcome of a call that raised exception exc: no value is returned
Raised(exc) ==
    [status |-> exc, link_margin_db |-> NoDb, ebn0_db |-> NoDb, fspl_db |-> NoDb,
     total_loss_db |-> NoDb, noise_floor_dbw |-> NoDb, c_rx_dbw |-> NoDb,
     data_rate_bps |-> NoFlt, cn0_dbhz |-> NoDb]

Unassigned == Raised("none")

\* a: the arguments, a record with the parameters' names.  The only
\* operation that raises is the float division by freq_hz; np.log10 returns
\* -inf or nan and the chain goes on.
calculate_link_metrics(a) ==
    IF a.freq_hz.m = 0 THEN Raised("ZeroDivisionError")
    ELSE
    LET fspl       == fspl_db(a.distance_km, wavelength_m(a.freq_hz))
        total_loss == total_loss_db(fspl, a.rain_fade_db, a.misc_losses_db)
        c_rx       == c_rx_dbw(eirp_dbw(a.tx_power_dbw, a.tx_gain_dbi),
                               a.rx_gain_dbi, total_loss)
        noise_floor == noise_floor_dbw(a.bandwidth_hz, a.noise_figure_db)
        cn0        == cn0_dbhz(c_rx, noise_floor, a.bandwidth_hz)
        data_rate  == data_rate_bps(a.bandwidth_hz, a.spectral_efficiency)
        ebn0       == ebn0_db(cn0, data_rate)
    IN  [status |-> "ok",
         link_margin_db |-> link_margin_db(ebn0, a.required_ebn0),
         ebn0_db |-> ebn0, fspl_db |-> fspl, total_loss_db |-> total_loss,
         noise_floor_dbw |-> noise_floor, c_rx_dbw |-> c_rx,
         data_rate_bps |-> data_rate, cn0_dbhz |-> cn0]

\* classify_margin with the first test written >= instead of >
classify_margin_strong_from_10(margin) ==
    IF ~XLt(margin, DbInt(10)) /\ margin.k # "nan" THEN "Strong"
    ELSE IF XGt(margin, DbInt(3)) THEN "Sufficient"
    ELSE IF XGt(margin, DbInt(0)) THEN "Marginal"
    ELSE "NonViable"

\* the if/elif chain that picks the status box under the results
classify_margin(margin) ==
    IF XGt(margin, DbInt(10)) THEN "Strong"
    ELSE IF XGt(margin, DbInt(3)) THEN "Sufficient"
    ELSE IF XGt(margin, DbInt(0)) THEN "Marginal"
    ELSE "NonViable"

(***************************************************************************)
(* State                                                                   *)
(*   w             the widgets' values, which Streamlit keeps between runs *)
(*   pc            where the script run is: "config" (the input column),   *)
(*                 "calc" (the call of calculate_link_metrics), "display"  *)
(*                 (the results column), "idle" (run over, waiting for a   *)
(*                 widget change), "error" (run ended by an exception)     *)
(*   freq_hz, bandwidth_hz, band, warned, res, tier                        *)
(*                 the script's variables and what it has shown; every     *)
(*                 run starts with none of them assigned                   *)
(*   first         the widgets and results of the first completed run      *)
(*   arg, called, ret                                                      *)
(*                 a direct call of one function: its argument, whether    *)
(*                 it has been made, and what it returned                  *)
(***************************************************************************)
VARIABLES w, pc, freq_hz, bandwidth_hz, band, warned, res, tier, first,
          arg, called, ret

vars == <<w, pc, freq_hz, bandwidth_hz, band, warned, res, tier, first,
          arg, called, ret>>

appVars == <<w, pc, freq_hz, bandwidth_hz, band, warned, res, tier, first>>

callVars == <<arg, called, ret>>

(***************************************************************************)
(* The Streamlit script                                                    *)
(***************************************************************************)
\* the values each widget is given here, its minimum and default among them
tx_power_values == {10, 30}
tx_gain_values == {10, 30}
rx_gain_values == {10, 30}
freq_ghz_values == {Flt(1, -1), Flt(5, 0), Flt(84, -1), Flt(20, 0), Flt(50, 0)}
rain_fade_db_values == {DbInt(0), DbInt(3)}
misc_losses_db_values == {DbInt(0), DbInt(2)}
distance_km_values == {100, 35786, 40000}
noise_figure_db_values == {DbInt(1), DbInt(3)}
\* the bandwidth slider with min_value 0
bandwidth_mhz_values_from_zero == {Flt(0, 0), Flt(1, 0), Flt(20, 0)}
bandwidth_mhz_values == {Flt(1, -2), Flt(1, 0), Flt(20, 0)}
spectral_efficiency_values == {Flt(1, -1), Flt(1, 0)}
required_ebn0_values == {DbInt(-10), DbInt(2)}

WidgetValues ==
    [tx_power |-> tx_power_values, tx_gain |-> tx_gain_values,
     rx_gain |-> rx_gain_values, freq_ghz |-> freq_ghz_values,
     rain_fade_db |-> rain_fade_db_values,
     misc_losses_db |-> misc_losses_db_values,
     distance_km |-> distance_km_values,
     noise_figure_db |-> noise_figure_db_values,
     bandwidth_mhz |-> bandwidth_mhz_values,
     spectral_efficiency |-> spectral_efficiency_values,
     required_ebn0 |-> required_ebn0_values]

\* the value= of each widget
WidgetDefaults ==
    [tx_power |-> 10, tx_gain |-> 10, rx_gain |-> 10, freq_ghz |-> Flt(84, -1),
     rain_fade_db |-> DbInt(3), misc_losses_db |-> DbInt(2),
     distance_km |-> 35786, noise_figure_db |-> DbInt(3),
     bandwidth_mhz |-> Flt(1, 0), spectral_efficiency |-> Flt(1, 0),
     required_ebn0 |-> DbInt(2)]

NoRun ==
    [done |-> FALSE, later |-> FALSE, w |-> WidgetDefaults, res |-> Unassigned,
     tier |-> "none"]

\* the arguments of the script's call of calculate_link_metrics
CallArgs(wv, f_hz, b_hz) ==
    [tx_power_dbw |-> DbInt(wv.tx_power), tx_gain_dbi |-> DbInt(wv.tx_gain),
     rx_gain_dbi |-> DbInt(wv.rx_gain), freq_hz |-> f_hz,
     distance_km |-> Flt(wv.distance_km, 0),
     noise_figure_db |-> wv.noise_figure_db, bandwidth_hz |-> b_hz,
     spectral_efficiency |-> wv.spectral_efficiency,
     required_ebn0 |-> wv.required_ebn0,
     rain_fade_db |-> wv.rain_fade_db, misc_losses_db |-> wv.misc_losses_db]

AppInit ==
    /\ w = WidgetDefaults
    /\ pc = "config"
    /\ freq_hz = NoFlt /\ bandwidth_hz = NoFlt
    /\ band = "none" /\ warned = FALSE
    /\ res = Unassigned /\ tier = "none"
    /\ first = NoRun

\* the user changes one widget: Streamlit runs the script again from the top
Interact ==
    /\ pc \in {"idle", "error"}
    /\ \E f \in DOMAIN WidgetValues : \E v \in WidgetValues[f] :
          /\ v # w[f]
          /\ w' = [w EXCEPT ![f] = v]
    /\ pc' = "config"
    /\ freq_hz' = NoFlt /\ bandwidth_hz' = NoFlt
    /\ band' = "none" /\ warned' = FALSE
    /\ res' = Unassigned /\ tier' = "none"
    /\ first' = [first EXCEPT !.later = first.done]
    /\ UNCHANGED callVars

\* Configure ending the run when it warns
ConfigureStopOnWarning ==
    /\ pc = "config"
    /\ freq_hz' = FMul(w.freq_ghz, Flt(1, 9))
    /\ bandwidth_hz' = FMul(w.bandwidth_mhz, Flt(1, 6))
    /\ band' = classify_band(freq_hz')
    /\ warned' = (band' \notin valid_bands)
    /\ pc' = IF warned' THEN "idle" ELSE "calc"
    /\ UNCHANGED <<w, res, tier, first, callVars>>

\* the input column: units, the band and the out-of-band warning
Configure ==
    /\ pc = "config"
    /\ freq_hz' = FMul(w.freq_ghz, Flt(1, 9))
    /\ bandwidth_hz' = FMul(w.bandwidth_mhz, Flt(1, 6))
    /\ band' = classify_band(freq_hz')
    /\ warned' = (band' \notin valid_bands)
    /\ pc' = "calc"
    /\ UNCHANGED <<w, res, tier, first, callVars>>

\* Calculate returning the first run's result again, whatever the arguments
CalculateMemoized ==
    /\ pc = "calc"
    /\ res' = IF first.done THEN first.res
              ELSE calculate_link_metrics(CallArgs(w, freq_hz, bandwidth_hz))
    /\ pc' = IF res'.status = "ok" THEN "display" ELSE "error"
    /\ UNCHANGED <<w, freq_hz, bandwidth_hz, band, warned, tier, first, callVars>>

\* the call; an exception ends the run
Calculate ==
    /\ pc = "calc"
    /\ res' = calculate_link_metrics(CallArgs(w, freq_hz, bandwidth_hz))
    /\ pc' = IF res'.status = "ok" THEN "display" ELSE "error"
    /\ UNCHANGED <<w, freq_hz, bandwidth_hz, band, warned, tier, first, callVars>>

\* the results column: the metrics and the status box
Display ==
    /\ pc = "display"
    /\ tier' = classify_margin(res.link_margin_db)
    /\ pc' = "idle"
    /\ first' = IF first.done THEN first
                ELSE [done |-> TRUE, later |-> FALSE, w |-> w, res |-> res,
                      tier |-> tier']
    /\ UNCHANGED <<w, freq_hz, bandwidth_hz, band, warned, res, callVars>>

NoCall == arg = 0 /\ called = FALSE /\ ret = 0

Init == AppInit /\ NoCall

Next == Interact \/ Configure \/ Calculate \/ Display

Spec == Init /\ [][Next]_vars

(***************************************************************************)
(* Direct calls of the functions, each on arguments drawn from a set       *)
(***************************************************************************)
MaxBandStep == 300
MarginSpan == 1500

\* the float just below x, x > 0
Pred(x) == IF x.m = MantLo THEN [m |-> 10 * MantLo - 1, e |-> x.e - 1]
           ELSE [m |-> x.m - 1, e |-> x.e]

\* every multiple of 100 MHz up to MaxBandStep of them, and the float just
\* below each
BandFrequencies ==
    {Flt(n, 8) : n \in 0..MaxBandStep} \cup {Pred(Flt(n, 8)) : n \in 1..MaxBandStep}

BandInit ==
    /\ AppInit
    /\ arg \in BandFrequencies /\ called = FALSE /\ ret = "none"

CallClassifyBand ==
    /\ ~called
    /\ ret' = classify_band(arg)
    /\ called' = TRUE
    /\ UNCHANGED <<arg, appVars>>

SpecBand == BandInit /\ [][CallClassifyBand]_vars

\* every margin from -MarginSpan/100 dB to MarginSpan/100 dB in steps of 0.01 dB
Margins == {DbCenti(n) : n \in -MarginSpan..MarginSpan}

MarginInit ==
    /\ AppInit
    /\ arg \in Margins /\ called = FALSE /\ ret = "none"

ShowMarginStatus ==
    /\ ~called
    /\ ret' = classify_margin(arg)
    /\ called' = TRUE
    /\ UNCHANGED <<arg, appVars>>

SpecMargin == MarginInit /\ [][ShowMarginStatus]_vars

\* arguments of calculate_link_metrics, zero and negative ones among them
DistanceArgs ==
    {Flt(0, 0), Flt(-5, 0), Flt(100, 0), Flt(2000, 0), Flt(35786, 0), Flt(40000, 0)}

BandwidthArgs == {Flt(0, 0), Flt(-1, 6), Flt(1, 4), Flt(1, 6), Flt(2, 7)}

EngineArgs ==
    [tx_power_dbw : {DbInt(10), DbInt(30)},
     tx_gain_dbi : {DbInt(10)},
     rx_gain_dbi : {DbInt(10)},
     freq_hz : {Flt(0, 0), Flt(-1, 9), Flt(1, 8), Flt(84, 8), Flt(5, 10)},
     distance_km : DistanceArgs,
     noise_figure_db : {DbInt(3)},
     bandwidth_hz : BandwidthArgs,
     spectral_efficiency : {Flt(5, -1), Flt(1, 0), Flt(3, 0)},
     required_ebn0 : {DbCenti(150), DbInt(2)},
     rain_fade_db : {DbInt(0), DbInt(3)},
     misc_losses_db : {DbInt(0), DbInt(2)}]

EngineInit ==
    /\ AppInit
    /\ arg \in EngineArgs /\ called = FALSE /\ ret = Unassigned

CallCalculate ==
    /\ ~called
    /\ ret' = calculate_link_metrics(arg)
    /\ called' = TRUE
    /\ UNCHANGED <<arg, appVars>>

SpecEngine == EngineInit /\ [][CallCalculate]_vars

(***************************************************************************)
(* Modulation selected by name.  The script takes the spectral efficiency  *)
(* and the required Eb/N0 as numbers and never reads modcod_table; the     *)
(* lookup by name is modelled from the specification's engine contract.    *)
(***************************************************************************)
default_modcod == "QPSK 1/2"

NoModulation ==
    [ok |-> FALSE, required_ebn0 |-> NoDb, spectral_efficiency |-> NoFlt]

\* resolve_modulation falling back to default_modcod for an unknown name
resolve_modulation_default_on_missing(r) ==
    IF r.mode = "name"
    THEN LET n == IF r.name \in DOMAIN modcod_table THEN r.name ELSE default_modcod
         IN  [ok |-> TRUE, required_ebn0 |-> modcod_table[n].required_ebn0,
              spectral_efficiency |-> modcod_table[n].spectral_efficiency]
    ELSE [ok |-> TRUE, required_ebn0 |-> r.required_ebn0,
          spectral_efficiency |-> r.spectral_efficiency]

\* the modulation of a request: the table's entry of a name, the pair itself
\* of an explicit request, none of a name the table does not hold
resolve_modulation(r) ==
    IF r.mode = "name"
    THEN IF r.name \in DOMAIN modcod_table
         THEN [ok |-> TRUE, required_ebn0 |-> modcod_table[r.name].required_ebn0,
               spectral_efficiency |-> modcod_table[r.name].spectral_efficiency]
         ELSE NoModulation
    ELSE [ok |-> TRUE, required_ebn0 |-> r.required_ebn0,
          spectral_efficiency |-> r.spectral_efficiency]

\* compute(params, modulation): InvalidParameter before any computation when
\* the modulation does not resolve
compute(a) ==
    LET m == resolve_modulation(a.request)
    IN  IF ~m.ok THEN Raised("InvalidParameter")
        ELSE calculate_link_metrics(
                [a.params EXCEPT !.spectral_efficiency = m.spectral_efficiency,
                                 !.required_ebn0 = m.required_ebn0])

ExplicitRequest(pair) ==
    [mode |-> "explicit", name |-> "", required_ebn0 |-> pair.required_ebn0,
     spectral_efficiency |-> pair.spectral_efficiency]

ModulationRequests ==
    [mode : {"name"},
     name : DOMAIN modcod_table \cup {"64QAM 5/6", "qpsk 1/2", ""},
     required_ebn0 : {NoDb}, spectral_efficiency : {NoFlt}]
    \cup {ExplicitRequest(modcod_table[n]) : n \in DOMAIN modcod_table}
    \cup {ExplicitRequest([required_ebn0 |-> DbInt(12),
                           spectral_efficiency |-> Flt(4, 0)])}

ComputeParams ==
    {a \in EngineArgs :
        /\ a.freq_hz \in {Flt(1, 8), Flt(84, 8)}
        /\ a.distance_km \in {Flt(100, 0), Flt(35786, 0)}
        /\ a.bandwidth_hz \in {Flt(1, 4), Flt(1, 6)}
        /\ a.spectral_efficiency = Flt(1, 0) /\ a.required_ebn0 = DbInt(2)
        /\ a.tx_power_dbw = DbInt(10)
        /\ a.misc_losses_db = DbInt(2)}

ModcodInit ==
    /\ AppInit
    /\ arg \in [request : ModulationRequests, params : ComputeParams]
    /\ called = FALSE /\ ret = Unassigned

CallCompute ==
    /\ ~called
    /\ ret' = compute(arg)
    /\ called' = TRUE
    /\ UNCHANGED <<arg, appVars>>

SpecModcod == ModcodInit /\ [][CallCompute]_vars

(***************************************************************************)
(* Properties                                                              *)
(***************************************************************************)
FZero == Flt(0, 0)

BandOrder ==
    <<"HF/VHF", "UHF", "L-band", "S-band", "C-band", "X-band", "Ku-band",
      "K-band", "Ka-band">>

\* the lower end of each band's interval, in Hz
BandStart ==
    <<Flt(0, 0), Flt(3, 8), Flt(1, 9), Flt(2, 9), Flt(4, 9), Flt(8, 9),
      Flt(12, 9), Flt(18, 9), Flt(26, 9)>>

BandRank(b) == CHOOSE i \in 1..9 : BandOrder[i] = b

InBandInterval(f, i) ==
    FLe(BandStart[i], f) /\ (i = 9 \/ FLt(f, BandStart[i + 1]))

\* C1: for every frequency >= 0 classify_band returns the band of the one
\* left-closed, right-open interval that holds it; a breakpoint maps to the
\* band that starts there, the float just below it to the band before; and
\* the band never moves down the band order as the frequency grows.
C1_BandIntervals ==
    called =>
        /\ \E i \in 1..9 : InBandInterval(arg, i) /\ ret = BandOrder[i]
        /\ \A i \in 1..9, j \in 1..9 :
              InBandInterval(arg, i) /\ InBandInterval(arg, j) => i = j
        /\ \A i \in 2..9 :
              /\ arg = BandStart[i] => ret = BandOrder[i]
              /\ arg = Pred(BandStart[i]) => ret = BandOrder[i - 1]
        /\ \A f \in BandFrequencies :
              FLe(arg, f) => BandRank(ret) <= BandRank(classify_band(f))

C1_Witness == called /\ arg = Flt(8, 9) /\ ret = "X-band"

ValidArgs(a) ==
    /\ FLt(FZero, a.freq_hz) /\ FLt(FZero, a.distance_km)
    /\ FLt(FZero, a.bandwidth_hz) /\ FLt(FZero, a.spectral_efficiency)

DbFields ==
    {"link_margin_db", "ebn0_db", "fspl_db", "total_loss_db", "noise_floor_dbw",
     "c_rx_dbw", "cn0_dbhz"}

AllFinite(r) == \A f \in DbFields : IsFinite(r[f])

\* C2: a call with frequency, distance or bandwidth zero or negative raises
\* before anything is computed and returns no result, so that no infinity and
\* no nan reaches a result.
C2_InvalidParameterRaised ==
    called /\ (FLe(arg.freq_hz, FZero) \/ FLe(arg.distance_km, FZero)
               \/ FLe(arg.bandwidth_hz, FZero))
        => ret.status \notin {"ok", "none"} /\ ret = Raised(ret.status)

TierOrder == <<"NonViable", "Marginal", "Sufficient", "Strong">>

TierRank(t) == CHOOSE i \in 1..4 : TierOrder[i] = t

\* the margins the specification lists, in hundredths of a dB, and their tiers
ListedMargins ==
    {<<1100, "Strong">>, <<1001, "Strong">>, <<1000, "Sufficient">>,
     <<500, "Sufficient">>, <<301, "Sufficient">>, <<300, "Marginal">>,
     <<100, "Marginal">>, <<0, "NonViable">>, <<-100, "NonViable">>}

\* C3: Strong above 10 dB, Sufficient above 3 up to 10, Marginal above 0 up
\* to 3, NonViable at 0 and below; one tier per margin, the tier never moves
\* down as the margin grows, and the listed margins get the listed tiers.
C3_MarginTiers ==
    called =>
        /\ ret \in {"Strong", "Sufficient", "Marginal", "NonViable"}
        /\ ret = "Strong" <=> arg.v > 10 * Scale
        /\ ret = "Sufficient" <=> (3 * Scale < arg.v /\ arg.v <= 10 * Scale)
        /\ ret = "Marginal" <=> (0 < arg.v /\ arg.v <= 3 * Scale)
        /\ ret = "NonViable" <=> arg.v <= 0
        /\ \A p \in ListedMargins : arg = DbCenti(p[1]) => ret = p[2]
        /\ TierRank(ret) <= TierRank(classify_margin(Fin(arg.v + Scale \div 100)))

C3_Witness == called /\ arg = DbInt(10) /\ ret = "Sufficient"

\* C4: on valid arguments the returned values satisfy the dB chain:
\* total loss = path loss + rain fade + misc losses; received power =
\* tx power + tx gain + rx gain - total loss; C/N0 = received power - noise
\* floor + 10 log10(bandwidth); data rate = bandwidth * spectral efficiency;
\* Eb/N0 = C/N0 - 10 log10(data rate); margin = Eb/N0 - required Eb/N0.
C4_DbChain ==
    called /\ ValidArgs(arg) =>
        /\ ret.status = "ok" /\ AllFinite(ret)
        /\ ret.total_loss_db.v =
              ret.fspl_db.v + arg.rain_fade_db.v + arg.misc_losses_db.v
        /\ ret.c_rx_dbw.v =
              arg.tx_power_dbw.v + arg.tx_gain_dbi.v + arg.rx_gain_dbi.v
                 - ret.total_loss_db.v
        /\ ret.cn0_dbhz.v =
              ret.c_rx_dbw.v - ret.noise_floor_dbw.v
                 + 10 * Log10(arg.bandwidth_hz).v
        /\ ret.data_rate_bps = FMul(arg.bandwidth_hz, arg.spectral_efficiency)
        /\ ret.ebn0_db.v = ret.cn0_dbhz.v - 10 * Log10(ret.data_rate_bps).v
        /\ ret.link_margin_db.v = ret.ebn0_db.v - arg.required_ebn0.v

C4_Witness ==
    /\ called /\ ValidArgs(arg) /\ ret.status = "ok"
    /\ arg.rain_fade_db = DbInt(3) /\ arg.misc_losses_db = DbInt(2)
    /\ arg.distance_km = Flt(35786, 0)

PositiveBandwidths == {b \in BandwidthArgs : FLt(FZero, b)}

PositiveDistances == {d \in DistanceArgs : FLt(FZero, d)}

\* C5 as stated: with the other parameters and the spectral efficiency
\* fixed, every positive bandwidth gives the same Eb/N0 and the same margin.
C5_Ebn0IndependentOfBandwidth ==
    called /\ ValidArgs(arg) =>
        \A b \in PositiveBandwidths :
            LET other == calculate_link_metrics([arg EXCEPT !.bandwidth_hz = b])
            IN  /\ other.ebn0_db = ret.ebn0_db
                /\ other.link_margin_db = ret.link_margin_db

\* C5 as amended: with the other parameters and the spectral efficiency
\* fixed, every positive bandwidth gives the same received power and the
\* same C/N0 (the bandwidth terms of the noise floor and of C/N0 cancel);
\* Eb/N0 and the margin are C/N0 minus 10 log10(bandwidth * efficiency),
\* less the requirement, and are strictly lower at a larger bandwidth.
C5_Cn0IndependentOfBandwidth ==
    called /\ ValidArgs(arg) =>
        \A b \in PositiveBandwidths :
            LET other == calculate_link_metrics([arg EXCEPT !.bandwidth_hz = b])
            IN  /\ other.cn0_dbhz = ret.cn0_dbhz
                /\ other.c_rx_dbw = ret.c_rx_dbw
                /\ other.ebn0_db.v - ret.ebn0_db.v =
                      10 * Log10(ret.data_rate_bps).v
                         - 10 * Log10(other.data_rate_bps).v
                /\ FLt(arg.bandwidth_hz, b) =>
                      /\ XLt(other.ebn0_db, ret.ebn0_db)
                      /\ XLt(other.link_margin_db, ret.link_margin_db)
                      /\ XGt(other.noise_floor_dbw, ret.noise_floor_dbw)

C5_Witness ==
    /\ called /\ ValidArgs(arg) /\ ret.status = "ok"
    /\ arg.bandwidth_hz = Flt(1, 4)
    /\ calculate_link_metrics([arg EXCEPT !.bandwidth_hz = Flt(2, 7)]).ebn0_db
          # ret.ebn0_db

\* C6: with the other parameters fixed, a larger distance gives a strictly
\* higher path loss and a strictly lower received power and margin.
C6_DistanceMonotone ==
    called /\ ValidArgs(arg) =>
        \A d \in PositiveDistances :
            FLt(arg.distance_km, d) =>
                LET far == calculate_link_metrics([arg EXCEPT !.distance_km = d])
                IN  /\ XGt(far.fspl_db, ret.fspl_db)
                    /\ XLt(far.c_rx_dbw, ret.c_rx_dbw)
                    /\ XLt(far.link_margin_db, ret.link_margin_db)

C6_Witness ==
    /\ called /\ ValidArgs(arg) /\ ret.status = "ok"
    /\ arg.distance_km = Flt(35786, 0)
    /\ XLt(calculate_link_metrics([arg EXCEPT !.distance_km = Flt(40000, 0)])
              .link_margin_db, ret.link_margin_db)

\* C7: a request that names a modulation the table does not hold raises
\* InvalidParameter and returns no result; one that names an entry of the
\* table is computed with that entry's required Eb/N0 and spectral
\* efficiency, and returns what the same pair given explicitly returns.
C7_ModulationByName ==
    called /\ arg.request.mode = "name" =>
        IF arg.request.name \in DOMAIN modcod_table
        THEN LET entry == modcod_table[arg.request.name]
             IN  /\ ret.status = "ok"
                 /\ ret = calculate_link_metrics(
                       [arg.params EXCEPT
                           !.spectral_efficiency = entry.spectral_efficiency,
                           !.required_ebn0 = entry.required_ebn0])
                 /\ ret = compute([arg EXCEPT !.request = ExplicitRequest(entry)])
        ELSE ret = Raised("InvalidParameter")

C7_Witness ==
    /\ called /\ arg.request.mode = "name" /\ arg.request.name = "64QAM 5/6"
    /\ ret.status = "InvalidParameter"

\* what a run on widget values wv computes, from nothing but wv
FreshResult(wv) ==
    calculate_link_metrics(
        CallArgs(wv, FMul(wv.freq_ghz, Flt(1, 9)), FMul(wv.bandwidth_mhz, Flt(1, 6))))

\* C8: no state is carried from one run to the next: whatever runs came
\* before, a finished run shows what its own widget values give, and a run
\* on the values of the first run shows again what the first run showed.
C8_NoCarriedState ==
    /\ pc \in {"display", "idle"} => res = FreshResult(w)
    /\ pc = "idle" => tier = classify_margin(FreshResult(w).link_margin_db)
    /\ pc = "idle" /\ first.done /\ w = first.w =>
          res = first.res /\ tier = first.tier

C8_Witness ==
    /\ pc = "idle" /\ first.done /\ first.later
    /\ w = first.w /\ res = first.res /\ res.status = "ok"

OutOfBand == {"HF/VHF", "C-band", "K-band"}

\* C9: the out-of-band warning does not block the computation: it is shown
\* exactly when the band is HF/VHF, C-band or K-band, and with or without it
\* no run ends before it has computed and displayed the link budget its
\* inputs give.
C9_AdvisoryDoesNotBlock ==
    /\ pc \in {"calc", "display", "idle"} =>
          /\ band = classify_band(FMul(w.freq_ghz, Flt(1, 9)))
          /\ warned <=> band \in OutOfBand
    /\ pc \in {"display", "idle"} => res.status = "ok" /\ res = FreshResult(w)
    /\ pc = "idle" => tier = classify_margin(res.link_margin_db)

C9_Witness ==
    /\ pc = "idle" /\ warned /\ band = "K-band"
    /\ res.status = "ok" /\ tier # "none"

\* C10: every call the script makes has frequency >= 0.1 GHz, distance >=
\* 100 km, bandwidth >= 0.01 MHz and spectral efficiency >= 0.1, so the data
\* rate is positive, no division by zero and no logarithm of a number <= 0
\* occurs, and every returned value is finite.
C10_PositiveCallArguments ==
    /\ pc # "error"
    /\ pc \in {"calc", "display", "idle"} =>
          /\ FLe(Flt(1, 8), freq_hz)
          /\ w.distance_km >= 100
          /\ FLe(Flt(1, 4), bandwidth_hz)
          /\ FLe(Flt(1, -1), w.spectral_efficiency)
          /\ ValidArgs(CallArgs(w, freq_hz, bandwidth_hz))
    /\ pc \in {"display", "idle"} =>
          /\ res.status = "ok"
          /\ FLt(FZero, res.data_rate_bps)
          /\ AllFinite(res)

C10_Witness ==
    /\ pc = "idle" /\ res.status = "ok"
    /\ w.freq_ghz = Flt(1, -1) /\ w.distance_km = 100
    /\ w.bandwidth_mhz = Flt(1, -2) /\ w.spectral_efficiency = Flt(1, -1)

=============================================================================
